---- MODULE Spec2Model ----
(***************************************************************************)
(* State-machine model of the session/event bridge of mariflow-api:        *)
(* WhatsAppService (session state, lifecycle handlers, command facade,     *)
(* logout/destroy/restart), the socket broadcast wiring of App and the     *)
(* server-sent-event stream of WhatsAppController.getEvents.               *)
(***************************************************************************)
EXTENDS Integers, Sequences, FiniteSets, TLC

\* ---------------------------------------------------------------- bounds
\* Date.now() is modelled by a counter 1..MaxClock.
MaxClock == 2
\* At most MaxEvents raw events are delivered by the underlying clients.
MaxEvents == 2
\* At most MaxClients Client objects are constructed (constructor + restarts).
MaxClients == 2
\* longest header value, in tokens
MaxHeader == 2

\* ---------------------------------------------------------------- values
NULL == "null"
\* message.id is undefined: reading message.id._serialized throws TypeError
NoId == "undefined"
NONE == "-"

QrCodes == {"qr1"}

\* this.client.info as the ready handler may find it
NoInfo == [user |-> "", pushname |-> ""]
Infos == {NoInfo, [user |-> "5511", pushname |-> "Mari"], [user |-> "5511", pushname |-> ""]}

\* x || null
OrNull(x) == IF x = "" THEN NULL ELSE x

Clients == 1..MaxClients

LifecycleKinds == {"qr", "authenticated", "auth_failure", "ready", "disconnected"}
MessageKinds == {"message", "message_create", "message_ack"}
OtherKinds == {"message_reaction", "group_join", "group_leave", "battery_changed", "state_changed"}
Kinds == LifecycleKinds \cup MessageKinds \cup OtherKinds

Messages == {[id |-> "m1", body |-> "hi"], [id |-> NoId, body |-> "hi"]}

\* the first argument the underlying client passes with a raw event
RawPayloads(kind) ==
  CASE kind = "qr" -> {[id |-> NONE, body |-> q] : q \in QrCodes}
    [] kind \in MessageKinds -> Messages
    [] kind \in {"authenticated", "ready"} -> {[id |-> NONE, body |-> NoId]}
    [] OTHER -> {[id |-> NONE, body |-> "x"]}

Sockets == {"s1", "s2"}
Streams == {"e1", "e2"}
Consumers == Sockets \cup Streams

VARIABLES
  isReady, isAuthenticated, qrCode, phoneNumber, name, lastSeen,
  now,        \* Date.now()
  client,     \* this.client: the Client object currently held
  clientSt,   \* per Client object: "none" | "wired" | "started" | "destroyed"
  nEmitted,   \* number of raw events delivered so far
  cmd,        \* the command-facade call in flight
  ctl,        \* the initialize/logout/destroy/restart call in flight
  cons,       \* the socket and stream consumers
  rst,        \* history of a restart of a READY session: "none" | "torn" | "rebuilt" | "authed"
  last        \* history: what the last step was and how it ended

session == <<isReady, isAuthenticated, qrCode, phoneNumber, name, lastSeen>>
vars == <<isReady, isAuthenticated, qrCode, phoneNumber, name, lastSeen,
          now, client, clientSt, nEmitted, cmd, ctl, cons, rst, last>>

\* a getStatus() that answers with an object built at construction
Status_AtStart ==
  [isReady |-> FALSE, isAuthenticated |-> FALSE, qrCode |-> NULL,
   phoneNumber |-> NULL, name |-> NULL, lastSeen |-> 0]

\* getStatus(): the snapshot object
Status ==
  [isReady |-> isReady, isAuthenticated |-> isAuthenticated, qrCode |-> qrCode,
   phoneNumber |-> phoneNumber, name |-> name, lastSeen |-> lastSeen]

InitialStatus ==
  [isReady |-> FALSE, isAuthenticated |-> FALSE, qrCode |-> NULL,
   phoneNumber |-> NULL, name |-> NULL, lastSeen |-> 0]

NoSnap == [InitialStatus EXCEPT !.lastSeen = -1]

IdleCmd == [op |-> NONE, pc |-> "idle", calls |-> 0, rdy |-> FALSE]
IdleCtl == [op |-> NONE, pc |-> "idle", tgt |-> 0, fromReady |-> FALSE]
Step(s) == [step |-> s, op |-> NONE, code |-> NONE, calls |-> 0, rdy |-> FALSE,
            threw |-> FALSE, ret |-> NONE]
\* first: the first frame written to the consumer; lst: the kinds its
\* eventHandler is registered for on the service; timer: its ping interval runs
NewConsumer == [st |-> "new", since |-> 0, snap |-> NoSnap, got |-> <<>>, due |-> <<>>,
                first |-> NONE, lst |-> {}, timer |-> FALSE]

Init ==
  /\ isReady = FALSE
  /\ isAuthenticated = FALSE
  /\ qrCode = NULL
  /\ phoneNumber = NULL
  /\ name = NULL
  /\ lastSeen = 0
  /\ now = 1
  /\ client = 1
  /\ clientSt = [c \in Clients |-> IF c = 1 THEN "wired" ELSE "none"]
  /\ nEmitted = 0
  /\ cmd = IdleCmd
  /\ ctl = IdleCtl
  /\ cons = [c \in Consumers |-> NewConsumer]
  /\ rst = "none"
  /\ last = Step("init")

\* time passes
Tick ==
  /\ now < MaxClock
  /\ now' = now + 1
  /\ last' = Step("tick")
  /\ UNCHANGED <<session, client, clientSt, nEmitted, cmd, ctl, cons, rst>>

\* ------------------------------------------------------------ event fan-out
\* kinds App.initializeWhatsApp re-broadcasts with io.emit("whatsapp:<kind>")
AppKinds == {"ready", "qr", "authenticated", "auth_failure", "disconnected",
             "message", "message_create", "group_join", "group_leave"}
\* kinds WhatsAppController.getEvents registers eventHandler for
SseKinds == {"message", "message_create", "message_ack", "group_join",
             "group_leave", "ready", "disconnected"}

\* the App listener reads message.id._serialized before it calls io.emit
AppThrows(kind, p) == kind \in {"message", "message_create"} /\ p.id = NoId

\* does the raw event handler end with an exception: the App listener throws
\* out of this.emit, or the handler's own debug line reads message.id._serialized
HandlerThrows(kind, p) == kind \in MessageKinds /\ p.id = NoId

\* the object io.emit sends for a kind
SocketPayload(kind, p) ==
  CASE kind = "ready" -> [id |-> NONE, body |-> "WhatsApp esta pronto"]
    [] kind = "authenticated" -> [id |-> NONE, body |-> "WhatsApp autenticado com sucesso"]
    [] kind \in {"message", "message_create"} -> [id |-> p.id, body |-> p.body]
    [] OTHER -> [id |-> NONE, body |-> p.body]

\* eventHandler writes the first argument of the emitted event
SsePayload(kind, p) == p

Entry(seq, kind, p) == [seq |-> seq, kind |-> kind, id |-> p.id, body |-> p.body]

\* does this.emit(kind, ...) reach consumer c: the App listener runs first (it
\* was registered at start-up), an exception in it ends the emit
Reaches(c, kind, p) ==
  /\ ~AppThrows(kind, p)
  /\ IF c \in Sockets THEN cons[c].st = "on" /\ kind \in AppKinds
                       ELSE kind \in cons[c].lst

\* an emit whose listeners put the newest event ahead of the older ones
Emit_NewestFirst(kind, p, seq) ==
  [c \in Consumers |->
     [cons[c] EXCEPT
        !.due = IF cons[c].st = "on" THEN Append(@, [seq |-> seq, kind |-> kind]) ELSE @,
        !.got = IF Reaches(c, kind, p)
                  THEN <<Entry(seq, kind,
                               IF c \in Sockets THEN SocketPayload(kind, p)
                                                ELSE SsePayload(kind, p))>> \o @
                  ELSE @,
        !.first = IF @ = NONE /\ Reaches(c, kind, p) THEN "event" ELSE @]]

\* this.emit(kind, p) as event number seq
Emit(kind, p, seq) ==
  [c \in Consumers |->
     [cons[c] EXCEPT
        !.due = IF cons[c].st = "on" THEN Append(@, [seq |-> seq, kind |-> kind]) ELSE @,
        !.got = IF Reaches(c, kind, p)
                  THEN Append(@, Entry(seq, kind,
                                       IF c \in Sockets THEN SocketPayload(kind, p)
                                                        ELSE SsePayload(kind, p)))
                  ELSE @,
        !.first = IF @ = NONE /\ Reaches(c, kind, p) THEN "event" ELSE @]]

\* what every raw event handler shares: the underlying client c delivers the event
Deliver(c, kind, p) ==
  /\ clientSt[c] = "started"
  /\ nEmitted < MaxEvents
  /\ nEmitted' = nEmitted + 1
  /\ cons' = Emit(kind, p, nEmitted + 1)
  /\ last' = [Step("event") EXCEPT !.threw = HandlerThrows(kind, p)]
  /\ UNCHANGED <<now, client, clientSt, cmd, ctl>>

\* ------------------------------------------------------- lifecycle handlers
OnQr ==
  \E c \in Clients : \E p \in RawPayloads("qr") :
    /\ Deliver(c, "qr", p)
    /\ qrCode' = p.body
    /\ UNCHANGED <<isReady, isAuthenticated, phoneNumber, name, lastSeen, rst>>

OnAuthenticated ==
  \E c \in Clients : \E p \in RawPayloads("authenticated") :
    /\ Deliver(c, "authenticated", p)
    /\ isAuthenticated' = TRUE
    /\ rst' = IF rst = "rebuilt" /\ c = client THEN "authed" ELSE rst
    /\ UNCHANGED <<isReady, qrCode, phoneNumber, name, lastSeen>>

OnAuthFailure ==
  \E c \in Clients : \E p \in RawPayloads("auth_failure") :
    /\ Deliver(c, "auth_failure", p)
    /\ isAuthenticated' = FALSE
    /\ UNCHANGED <<isReady, qrCode, phoneNumber, name, lastSeen, rst>>

OnReady ==
  \E c \in Clients : \E p \in RawPayloads("ready") : \E info \in Infos :
    /\ Deliver(c, "ready", p)
    /\ isReady' = TRUE
    /\ isAuthenticated' = TRUE
    /\ lastSeen' = now
    /\ phoneNumber' = OrNull(info.user)
    /\ name' = OrNull(info.pushname)
    /\ qrCode' = NULL
    /\ UNCHANGED rst

\* a disconnected handler that forgets the identity, as logout() does
OnDisconnected_Forgetting ==
  \E c \in Clients : \E p \in RawPayloads("disconnected") :
    /\ Deliver(c, "disconnected", p)
    /\ isReady' = FALSE
    /\ isAuthenticated' = FALSE
    /\ phoneNumber' = NULL
    /\ name' = NULL
    /\ UNCHANGED <<qrCode, lastSeen, rst>>

OnDisconnected ==
  \E c \in Clients : \E p \in RawPayloads("disconnected") :
    /\ Deliver(c, "disconnected", p)
    /\ isReady' = FALSE
    /\ isAuthenticated' = FALSE
    /\ UNCHANGED <<qrCode, phoneNumber, name, lastSeen, rst>>

\* message and message_create: emit, then lastSeen, then the debug log
OnMessage ==
  \E c \in Clients : \E kind \in {"message", "message_create"} : \E p \in RawPayloads(kind) :
    /\ Deliver(c, kind, p)
    /\ lastSeen' = IF AppThrows(kind, p) THEN lastSeen ELSE now
    /\ UNCHANGED <<isReady, isAuthenticated, qrCode, phoneNumber, name, rst>>

OnMessageAck ==
  \E c \in Clients : \E p \in RawPayloads("message_ack") :
    /\ Deliver(c, "message_ack", p)
    /\ UNCHANGED <<session, rst>>

\* message_reaction, group_join, group_leave, battery_changed, state_changed
OnNotification ==
  \E c \in Clients : \E kind \in OtherKinds : \E p \in RawPayloads(kind) :
    /\ Deliver(c, kind, p)
    /\ UNCHANGED <<session, rst>>

ClientEvent ==
  \/ OnQr
  \/ OnAuthenticated
  \/ OnAuthFailure
  \/ OnReady
  \/ OnDisconnected
  \/ OnMessage
  \/ OnMessageAck
  \/ OnNotification

\* ---------------------------------------------- initialize / logout / destroy
Ended(step, code, threw) == [Step(step) EXCEPT !.code = code, !.threw = threw]

\* initialize(): await this.client.initialize()
InitializeCall ==
  /\ ctl.pc = "idle"
  /\ ctl' = [IdleCtl EXCEPT !.op = "initialize", !.pc = "await", !.tgt = client]
  /\ clientSt' = [clientSt EXCEPT ![client] = "started"]
  /\ last' = Step("call")
  /\ UNCHANGED <<session, now, client, nEmitted, cmd, cons, rst>>

InitializeResolve ==
  /\ ctl.op = "initialize" /\ ctl.pc = "await"
  /\ ctl' = IdleCtl
  /\ last' = Ended("initialize", "OK", FALSE)
  /\ UNCHANGED <<session, now, client, clientSt, nEmitted, cmd, cons, rst>>

InitializeReject ==
  /\ ctl.op = "initialize" /\ ctl.pc = "await"
  /\ ctl' = IdleCtl
  /\ last' = Ended("initialize", "INIT_ERROR", TRUE)
  /\ UNCHANGED <<session, now, client, clientSt, nEmitted, cmd, cons, rst>>

\* logout(): await this.client.logout(), no readiness check
LogoutCall ==
  /\ ctl.pc = "idle"
  /\ ctl' = [IdleCtl EXCEPT !.op = "logout", !.pc = "await", !.tgt = client]
  /\ last' = Step("call")
  /\ UNCHANGED <<session, now, client, clientSt, nEmitted, cmd, cons, rst>>

LogoutResolve ==
  /\ ctl.op = "logout" /\ ctl.pc = "await"
  /\ isReady' = FALSE
  /\ isAuthenticated' = FALSE
  /\ phoneNumber' = NULL
  /\ name' = NULL
  /\ qrCode' = NULL
  /\ ctl' = IdleCtl
  /\ last' = Ended("logout", "OK", FALSE)
  /\ UNCHANGED <<lastSeen, now, client, clientSt, nEmitted, cmd, cons, rst>>

LogoutReject ==
  /\ ctl.op = "logout" /\ ctl.pc = "await"
  /\ ctl' = IdleCtl
  /\ last' = Ended("logout", "LOGOUT_ERROR", TRUE)
  /\ UNCHANGED <<session, now, client, clientSt, nEmitted, cmd, cons, rst>>

\* destroy() after this.client.destroy() has settled: the two flags are cleared
\* only when it resolved, a rejection is logged and absorbed
DestroySettled(ok, tgt) ==
  /\ isReady' = IF ok THEN FALSE ELSE isReady
  /\ isAuthenticated' = IF ok THEN FALSE ELSE isAuthenticated
  /\ clientSt' = IF ok THEN [clientSt EXCEPT ![tgt] = "destroyed"] ELSE clientSt
  /\ UNCHANGED <<qrCode, phoneNumber, name, lastSeen>>

DestroyCall ==
  /\ ctl.pc = "idle"
  /\ ctl' = [IdleCtl EXCEPT !.op = "destroy", !.pc = "await", !.tgt = client]
  /\ last' = Step("call")
  /\ UNCHANGED <<session, now, client, clientSt, nEmitted, cmd, cons, rst>>

DestroyResolve ==
  /\ ctl.op = "destroy" /\ ctl.pc = "await"
  /\ DestroySettled(TRUE, ctl.tgt)
  /\ ctl' = IdleCtl
  /\ last' = Ended("destroy", "OK", FALSE)
  /\ UNCHANGED <<now, client, nEmitted, cmd, cons, rst>>

\* a destroy() whose catch block rethrows
DestroyReject_Rethrows ==
  /\ ctl.op = "destroy" /\ ctl.pc = "await"
  /\ DestroySettled(FALSE, ctl.tgt)
  /\ ctl' = IdleCtl
  /\ last' = Ended("destroy", "DESTROY_ERROR", TRUE)
  /\ UNCHANGED <<now, client, nEmitted, cmd, cons, rst>>

DestroyReject ==
  /\ ctl.op = "destroy" /\ ctl.pc = "await"
  /\ DestroySettled(FALSE, ctl.tgt)
  /\ ctl' = IdleCtl
  /\ last' = Ended("destroy", "OK", TRUE)
  /\ UNCHANGED <<now, client, nEmitted, cmd, cons, rst>>

\* ------------------------------------------------------------------ restart
\* restart(): await this.destroy()
RestartCall ==
  /\ ctl.pc = "idle"
  /\ ctl' = [op |-> "restart", pc |-> "destroying", tgt |-> client, fromReady |-> isReady]
  /\ last' = Step("call")
  /\ UNCHANGED <<session, now, client, clientSt, nEmitted, cmd, cons, rst>>

\* this.destroy() returns (it never rejects); the 2 s timer is started
RestartTeardown ==
  /\ ctl.op = "restart" /\ ctl.pc = "destroying"
  /\ \E ok \in BOOLEAN :
       /\ DestroySettled(ok, ctl.tgt)
       /\ last' = Ended("restart_teardown", NONE, ~ok)
  /\ ctl' = [ctl EXCEPT !.pc = "delay"]
  /\ rst' = IF ctl.fromReady THEN "torn" ELSE rst
  /\ UNCHANGED <<now, client, nEmitted, cmd, cons>>

\* a restart() that does not await this.destroy() before building the client
RestartRebuild_Early ==
  /\ ctl.op = "restart" /\ ctl.pc \in {"destroying", "delay"}
  /\ client < MaxClients
  /\ client' = client + 1
  /\ clientSt' = [clientSt EXCEPT ![client + 1] = "started"]
  /\ ctl' = [ctl EXCEPT !.pc = "init", !.tgt = client + 1]
  /\ rst' = IF rst = "torn" THEN "rebuilt" ELSE rst
  /\ last' = Step("restart_rebuild")
  /\ UNCHANGED <<session, now, nEmitted, cmd, cons>>

\* the timer fires: initializeClient() builds and wires a new Client, then
\* initialize() calls its initialize()
RestartRebuild ==
  /\ ctl.op = "restart" /\ ctl.pc = "delay"
  /\ client < MaxClients
  /\ client' = client + 1
  /\ clientSt' = [clientSt EXCEPT ![client + 1] = "started"]
  /\ ctl' = [ctl EXCEPT !.pc = "init", !.tgt = client + 1]
  /\ rst' = IF rst = "torn" THEN "rebuilt" ELSE rst
  /\ last' = Step("restart_rebuild")
  /\ UNCHANGED <<session, now, nEmitted, cmd, cons>>

\* initializeClient() throws INIT_ERROR (mkdirSync or the Client constructor)
RestartRebuildFail ==
  /\ ctl.op = "restart" /\ ctl.pc = "delay"
  /\ ctl' = IdleCtl
  /\ last' = Ended("restart", "RESTART_ERROR", TRUE)
  /\ UNCHANGED <<session, now, client, clientSt, nEmitted, cmd, cons, rst>>

RestartResolve ==
  /\ ctl.op = "restart" /\ ctl.pc = "init"
  /\ ctl' = IdleCtl
  /\ last' = Ended("restart", "OK", FALSE)
  /\ UNCHANGED <<session, now, client, clientSt, nEmitted, cmd, cons, rst>>

RestartReject ==
  /\ ctl.op = "restart" /\ ctl.pc = "init"
  /\ ctl' = IdleCtl
  /\ last' = Ended("restart", "RESTART_ERROR", TRUE)
  /\ UNCHANGED <<session, now, client, clientSt, nEmitted, cmd, cons, rst>>

\* ----------------------------------------------------------- command facade
\* one awaited call on the client
DirectOps == {"sendMessage", "sendMedia", "getContacts", "getChats", "getChatById",
              "createGroup", "joinGroup", "setStatus"}
\* this.getChatById(id), then one awaited call on the chat it returned
ChatOps == {"getGroupInviteLink", "getMessages", "markAsRead", "muteChat", "unmuteChat",
            "archiveChat", "unarchiveChat", "deleteChat", "pinChat", "unpinChat"}
\* this.client.getContactById(id), then one awaited call on the contact
ContactOps == {"getProfilePicture", "blockContact", "unblockContact"}
Ops == DirectOps \cup ChatOps \cup ContactOps \cup {"getClientInfo"}

\* the code of the WhatsAppError each operation's catch block throws
ErrorCode(op) ==
  CASE op = "sendMessage" -> "SEND_ERROR"
    [] op = "sendMedia" -> "SEND_MEDIA_ERROR"
    [] op = "getContacts" -> "GET_CONTACTS_ERROR"
    [] op = "getChats" -> "GET_CHATS_ERROR"
    [] op = "getChatById" -> "GET_CHAT_ERROR"
    [] op = "createGroup" -> "CREATE_GROUP_ERROR"
    [] op = "getGroupInviteLink" -> "GET_INVITE_ERROR"
    [] op = "joinGroup" -> "JOIN_GROUP_ERROR"
    [] op = "setStatus" -> "SET_STATUS_ERROR"
    [] op = "blockContact" -> "BLOCK_CONTACT_ERROR"
    [] op = "unblockContact" -> "UNBLOCK_CONTACT_ERROR"
    [] op = "getMessages" -> "GET_MESSAGES_ERROR"
    [] op = "markAsRead" -> "MARK_READ_ERROR"
    [] op = "muteChat" -> "MUTE_CHAT_ERROR"
    [] op = "unmuteChat" -> "UNMUTE_CHAT_ERROR"
    [] op = "archiveChat" -> "ARCHIVE_CHAT_ERROR"
    [] op = "unarchiveChat" -> "UNARCHIVE_CHAT_ERROR"
    [] op = "deleteChat" -> "DELETE_CHAT_ERROR"
    [] op = "pinChat" -> "PIN_CHAT_ERROR"
    [] op = "unpinChat" -> "UNPIN_CHAT_ERROR"
    [] op = "getClientInfo" -> "GET_CLIENT_INFO_ERROR"
    [] OTHER -> NONE

\* a second operation whose catch block swallows the error
Caught_Swallowing(op) ==
  IF op \in {"getProfilePicture", "getMessages"} THEN [code |-> "OK", ret |-> NULL]
  ELSE [code |-> ErrorCode(op), ret |-> NONE]

\* what an operation's catch block does: every one throws its WhatsAppError,
\* getProfilePicture returns null
Caught(op) ==
  IF op = "getProfilePicture" THEN [code |-> "OK", ret |-> NULL]
  ELSE [code |-> ErrorCode(op), ret |-> NONE]

\* the operations that assign this.lastSeen = Date.now() after their last await
TouchesLastSeen(op) ==
  op \in {"sendMessage", "sendMedia", "createGroup", "joinGroup", "setStatus",
          "blockContact", "unblockContact", "muteChat", "unmuteChat", "archiveChat",
          "unarchiveChat", "deleteChat", "pinChat", "unpinChat"}

\* sendMedia written without its readiness check
NotReady_Unchecked(op) == ~isReady /\ op # "sendMedia"

\* if (!this.isReady) throw new WhatsAppError(..., 'NOT_READY'), first line of op
NotReady(op) == ~isReady

\* the arguments sendMessage is called with
SendArgs == [to |-> "5511999999999@c.us", content |-> "hi"]

\* what client.sendMessage(to, content) may resolve with: the message a real
\* binding builds from its arguments, or the fixed message of the test stub
ClientMessages(to, content) ==
  {[id |-> "abc", from |-> "me", to |-> to, body |-> content, fromMe |-> TRUE],
   [id |-> "test-message-id", from |-> "test-from", to |-> "test-to",
    body |-> "test message", fromMe |-> TRUE]}

\* what the first call of a direct operation hands back, returned as it is
Resolved(op) ==
  IF op = "sendMessage" THEN ClientMessages(SendArgs.to, SendArgs.content) ELSE {"value"}

\* the call settles: the promise the caller holds resolves or rejects
Finish(op, code, threw, ret, calls, rdy) ==
  /\ cmd' = IdleCmd
  /\ last' = [step |-> "cmd", op |-> op, code |-> code, calls |-> calls, rdy |-> rdy,
              threw |-> threw, ret |-> ret]

\* an operation invoked on a session that is not ready
CmdNotReady ==
  \E op \in Ops :
    /\ cmd.pc = "idle"
    /\ NotReady(op)
    /\ Finish(op, "NOT_READY", FALSE, NONE, 0, isReady)
    /\ UNCHANGED <<session, now, client, clientSt, nEmitted, ctl, cons, rst>>

\* getClientInfo on a ready session: returns this.client.info, no call
CmdInfo ==
  /\ cmd.pc = "idle"
  /\ ~NotReady("getClientInfo")
  /\ Finish("getClientInfo", "OK", FALSE, "info", 0, isReady)
  /\ UNCHANGED <<session, now, client, clientSt, nEmitted, ctl, cons, rst>>

\* an operation passes its readiness check and makes its first call; a chat
\* operation makes it through this.getChatById, which checks readiness again
\* and whose NOT_READY error the operation's catch block would catch
CmdStartOf(O) ==
  \E op \in O :
    /\ cmd.pc = "idle"
    /\ ~NotReady(op)
    /\ IF op \in ChatOps /\ NotReady("getChatById")
         THEN Finish(op, Caught(op).code, FALSE, Caught(op).ret, 0, isReady)
         ELSE /\ cmd' = [op |-> op, pc |-> "call1", calls |-> 1, rdy |-> isReady]
              /\ last' = Step("call")
    /\ UNCHANGED <<session, now, client, clientSt, nEmitted, ctl, cons, rst>>

\* any operation that calls the client starts; sendMessage starts
CmdStart == CmdStartOf(DirectOps \cup ChatOps \cup ContactOps)
SendStart == CmdStartOf({"sendMessage"})

\* the first call resolves
CmdFirstResolve ==
  /\ cmd.pc = "call1"
  /\ \/ /\ cmd.op \in DirectOps
        /\ \E ret \in Resolved(cmd.op) :
             Finish(cmd.op, "OK", FALSE, ret, cmd.calls, cmd.rdy)
        /\ lastSeen' = IF TouchesLastSeen(cmd.op) THEN now ELSE lastSeen
     \/ /\ cmd.op \in (ChatOps \cup ContactOps)
        /\ cmd' = [cmd EXCEPT !.pc = "call2", !.calls = @ + 1]
        /\ last' = Step("call")
        /\ UNCHANGED lastSeen
     \/ \* client.sendMessage resolved with no message: lastSeen is assigned,
        \* then message.id._serialized throws in the log line and the catch
        \* block rethrows
        /\ cmd.op \in {"sendMessage", "sendMedia"}
        /\ Finish(cmd.op, Caught(cmd.op).code, FALSE, Caught(cmd.op).ret, cmd.calls, cmd.rdy)
        /\ lastSeen' = now
     \/ \* if (!chat.isGroup) throw NOT_GROUP, caught by the catch block below it
        /\ cmd.op = "getGroupInviteLink"
        /\ Finish(cmd.op, Caught(cmd.op).code, FALSE, Caught(cmd.op).ret, cmd.calls, cmd.rdy)
        /\ UNCHANGED lastSeen
  /\ UNCHANGED <<isReady, isAuthenticated, qrCode, phoneNumber, name,
                 now, client, clientSt, nEmitted, ctl, cons, rst>>

\* a catch block that takes a failed call for a lost session
CmdFirstReject_DropsReady ==
  /\ cmd.pc = "call1"
  /\ Finish(cmd.op, Caught(cmd.op).code, TRUE, Caught(cmd.op).ret, cmd.calls, cmd.rdy)
  /\ isReady' = FALSE
  /\ UNCHANGED <<isAuthenticated, qrCode, phoneNumber, name, lastSeen,
                 now, client, clientSt, nEmitted, ctl, cons, rst>>

\* the first call rejects
CmdFirstReject ==
  /\ cmd.pc = "call1"
  /\ Finish(cmd.op, Caught(cmd.op).code, TRUE, Caught(cmd.op).ret, cmd.calls, cmd.rdy)
  /\ UNCHANGED <<session, now, client, clientSt, nEmitted, ctl, cons, rst>>

\* the call on the chat or contact resolves
CmdSecondResolve ==
  /\ cmd.pc = "call2"
  /\ \E ret \in (IF cmd.op = "getProfilePicture" THEN {"value", NULL} ELSE {"value"}) :
       Finish(cmd.op, "OK", FALSE, ret, cmd.calls, cmd.rdy)
  /\ lastSeen' = IF TouchesLastSeen(cmd.op) THEN now ELSE lastSeen
  /\ UNCHANGED <<isReady, isAuthenticated, qrCode, phoneNumber, name,
                 now, client, clientSt, nEmitted, ctl, cons, rst>>

\* the call on the chat or contact rejects
CmdSecondReject ==
  /\ cmd.pc = "call2"
  /\ Finish(cmd.op, Caught(cmd.op).code, TRUE, Caught(cmd.op).ret, cmd.calls, cmd.rdy)
  /\ UNCHANGED <<session, now, client, clientSt, nEmitted, ctl, cons, rst>>

\* ---------------------------------------------------------------- consumers
\* io.on("connection") for one of the sockets S: the socket has joined the
\* broadcast and the handler emits the status snapshot to it
SocketConnectOf(S) ==
  \E c \in S :
    /\ cons[c].st = "new"
    /\ cons' = [cons EXCEPT ![c] = [@ EXCEPT !.st = "on", !.since = nEmitted,
                                             !.snap = Status, !.first = "status"]]
    /\ last' = [Step("attach") EXCEPT !.op = c]
    /\ UNCHANGED <<session, now, client, clientSt, nEmitted, cmd, ctl, rst>>

SocketDisconnect ==
  \E c \in Sockets :
    /\ cons[c].st = "on"
    /\ cons' = [cons EXCEPT ![c].st = "off"]
    /\ last' = [Step("detach") EXCEPT !.op = c]
    /\ UNCHANGED <<session, now, client, clientSt, nEmitted, cmd, ctl, rst>>

\* socket.on("whatsapp:get_status"): getStatus() is emitted to the asking socket
SocketGetStatus ==
  \E c \in Sockets :
    /\ cons[c].st = "on"
    /\ cons' = [cons EXCEPT ![c].snap = Status]
    /\ last' = [Step("get_status") EXCEPT !.op = c]
    /\ UNCHANGED <<session, now, client, clientSt, nEmitted, cmd, ctl, rst>>

\* the kinds the close handler calls removeListener for
SseRemoved_SixOfSeven == {"message", "message_create", "message_ack", "group_join",
                          "group_leave", "disconnected"}
SseRemoved == {"message", "message_create", "message_ack", "group_join",
               "group_leave", "ready", "disconnected"}

\* getEvents for one of the streams S: headers and the 'connected' record are
\* written, eventHandler is registered for the seven kinds, the ping interval
\* is started
StreamOpenOf(S) ==
  \E c \in S :
    /\ cons[c].st = "new"
    /\ cons' = [cons EXCEPT ![c] = [@ EXCEPT !.st = "on", !.since = nEmitted,
                                             !.first = "connected",
                                             !.lst = SseKinds, !.timer = TRUE]]
    /\ last' = [Step("attach") EXCEPT !.op = c]
    /\ UNCHANGED <<session, now, client, clientSt, nEmitted, cmd, ctl, rst>>

\* req.on('close'): the removeListener calls of this stream's eventHandler,
\* clearInterval
StreamClose ==
  \E c \in Streams :
    /\ cons[c].st = "on"
    /\ cons' = [cons EXCEPT ![c] = [@ EXCEPT !.st = "off", !.lst = @ \ SseRemoved,
                                             !.timer = FALSE]]
    /\ last' = [Step("detach") EXCEPT !.op = c]
    /\ UNCHANGED <<session, now, client, clientSt, nEmitted, cmd, ctl, rst>>

\* the setInterval callback of a stream writes a ping record
Heartbeat ==
  \E c \in Streams :
    /\ cons[c].timer
    /\ last' = [Step("ping") EXCEPT !.op = c]
    /\ UNCHANGED <<session, now, client, clientSt, nEmitted, cmd, ctl, cons, rst>>

\* any socket connects; the first socket connects
SocketConnect == SocketConnectOf(Sockets)
OneSocketConnect == SocketConnectOf({"s1"})
\* the first stream is opened; any stream is opened
StreamOpen == StreamOpenOf({"e1"})
AnyStreamOpen == StreamOpenOf(Streams)

\* ------------------------------------------------------- API key middleware
\* header values are sequences of tokens; the empty sequence is a header that
\* is absent or empty (both are falsy)
Bearer == "Bearer "
\* config.auth.apiKey
ApiKey == <<"key">>
HeaderTokens == {Bearer, "key", "bad"}
HeaderValues == UNION {[1..n -> HeaderTokens] : n \in 0..MaxHeader}
ProtectedRoutes == {"status", "qr", "events"}

\* value.replace('Bearer ', ''): the first occurrence is removed, wherever it is
ReplaceFirst(s) ==
  IF \E i \in DOMAIN s : s[i] = Bearer
    THEN LET i == CHOOSE k \in DOMAIN s :
                    s[k] = Bearer /\ \A j \in 1..(k - 1) : s[j] # Bearer
         IN SubSeq(s, 1, i - 1) \o SubSeq(s, i + 1, Len(s))
    ELSE s

\* req.headers['x-api-key'] || req.headers['authorization']?.replace('Bearer ', '')
PresentedKey(xkey, auth) == IF xkey # <<>> THEN xkey ELSE ReplaceFirst(auth)

\* does authenticateApiKey call next()
Authenticated(xkey, auth) ==
  PresentedKey(xkey, auth) # <<>> /\ PresentedKey(xkey, auth) = ApiKey

\* the response authenticateApiKey writes when it does not call next()
Rejection(xkey, auth) ==
  [status |-> 401, success |-> FALSE,
   error |-> IF PresentedKey(xkey, auth) = <<>> THEN "API key e obrigatoria"
                                                ELSE "API key invalida"]
\* no response written by the middleware
NoResponse == [status |-> 0, success |-> TRUE, error |-> NONE]

\* a request to a protected route passes through authenticateApiKey
AuthenticateApiKey ==
  \E route \in ProtectedRoutes, xkey \in HeaderValues, auth \in HeaderValues :
    /\ last' = [step |-> "auth", op |-> route, xkey |-> xkey, auth |-> auth,
                reached |-> Authenticated(xkey, auth),
                res |-> IF Authenticated(xkey, auth) THEN NoResponse
                                                     ELSE Rejection(xkey, auth)]
    /\ UNCHANGED <<session, now, client, clientSt, nEmitted, cmd, ctl, cons, rst>>

\* ------------------------------------------------------------- controllers
\* why a call on the underlying client failed: what it refers to does not
\* exist, or something else went wrong
ClientFailures == {"absent", "internal"}

\* how a facade operation called by a controller can settle in this state
ServiceOutcomes(op) ==
  IF NotReady(op)
    THEN {[code |-> "NOT_READY", ret |-> NONE, cause |-> "not_ready"]}
    ELSE {[code |-> "OK", ret |-> "value", cause |-> NONE]}
         \cup {[code |-> Caught(op).code, ret |-> Caught(op).ret, cause |-> f] :
                 f \in ClientFailures}

\* the ApiResponse envelope of a failure and of a success
Failure(status, error) == [status |-> status, success |-> FALSE, error |-> error, data |-> NONE]
Success(data) == [status |-> 200, success |-> TRUE, error |-> NONE, data |-> data]
Http(route, cause, res) == [step |-> "http", op |-> route, cause |-> cause, res |-> res]

\* validate(schema): a request that fails its Joi schema is answered 400, any
\* other is passed on
Validate ==
  \E route \in {"send", "profile-picture"}, valid \in BOOLEAN :
    /\ last' = IF valid THEN Http(route, NONE, NoResponse)
                        ELSE Http(route, "validation", Failure(400, "Dados invalidos"))
    /\ UNCHANGED <<session, now, client, clientSt, nEmitted, cmd, ctl, cons, rst>>

\* WhatsAppController.getQRCode
GetQRCode ==
  /\ last' = Http("qr", NONE,
                  IF Status.qrCode = NULL THEN Failure(404, "QR Code nao disponivel")
                                          ELSE Success(Status.qrCode))
  /\ UNCHANGED <<session, now, client, clientSt, nEmitted, cmd, ctl, cons, rst>>

\* GroupController.getGroup: getChatById, then the isGroup test
GetGroup ==
  \E out \in ServiceOutcomes("getChatById"), isGroup \in BOOLEAN :
    /\ last' = Http("group", out.cause,
                    IF out.code # "OK" THEN Failure(500, "Erro ao obter grupo")
                    ELSE IF ~isGroup THEN Failure(400, "Chat nao e um grupo")
                    ELSE Success("group"))
    /\ UNCHANGED <<session, now, client, clientSt, nEmitted, cmd, ctl, cons, rst>>

\* ContactController.getProfilePicture: null is answered 404
GetProfilePicture ==
  \E out \in ServiceOutcomes("getProfilePicture") :
    /\ last' = Http("profile-picture", out.cause,
                    IF out.code # "OK" THEN Failure(500, "Erro ao obter foto de perfil")
                    ELSE IF out.ret = NULL THEN Failure(404, "Foto de perfil nao encontrada")
                    ELSE Success("url"))
    /\ UNCHANGED <<session, now, client, clientSt, nEmitted, cmd, ctl, cons, rst>>

\* MessageController.sendMessage with type 'text': the test of to and message,
\* then sendMessage of the service, which sets lastSeen when it succeeds
SendMessage ==
  \E complete \in BOOLEAN, out \in ServiceOutcomes("sendMessage") :
    /\ last' = Http("send", IF complete THEN out.cause ELSE "validation",
                    IF ~complete THEN Failure(400, "Destinatario e mensagem sao obrigatorios")
                    ELSE IF out.code # "OK" THEN Failure(500, "Erro ao enviar mensagem")
                    ELSE Success("message"))
    /\ lastSeen' = IF complete /\ out.code = "OK" THEN now ELSE lastSeen
    /\ UNCHANGED <<isReady, isAuthenticated, qrCode, phoneNumber, name,
                   now, client, clientSt, nEmitted, cmd, ctl, cons, rst>>

\* ----------------------------------------------------------- specifications
Control ==
  \/ InitializeCall \/ InitializeResolve \/ InitializeReject
  \/ LogoutCall \/ LogoutResolve \/ LogoutReject
  \/ DestroyCall \/ DestroyResolve \/ DestroyReject
  \/ RestartCall \/ RestartTeardown \/ RestartRebuild \/ RestartRebuildFail
  \/ RestartResolve \/ RestartReject

Command ==
  \/ CmdNotReady \/ CmdInfo \/ CmdStart
  \/ CmdFirstResolve \/ CmdFirstReject \/ CmdSecondResolve \/ CmdSecondReject

Consumer == SocketConnect \/ SocketDisconnect \/ StreamOpen \/ StreamClose

\* the session: raw events, initialize/logout/destroy/restart, the clock
Next == Tick \/ ClientEvent \/ Control

Spec == Init /\ [][Next]_vars

\* the command facade over a session that changes under it
NextFacade ==
  \/ Tick \/ ClientEvent
  \/ InitializeCall \/ InitializeResolve \/ InitializeReject
  \/ LogoutCall \/ LogoutResolve \/ LogoutReject
  \/ DestroyCall \/ DestroyResolve \/ DestroyReject
  \/ Command

SpecFacade == Init /\ [][NextFacade]_vars

\* the fan-out of raw events to socket and stream consumers
NextFanout == InitializeCall \/ InitializeResolve \/ InitializeReject \/ ClientEvent \/ Consumer

SpecFanout == Init /\ [][NextFanout]_vars

\* =================================================================== claims

\* C1: in every reachable state, ready == true implies authenticated == true
C1_ReadyImpliesAuthenticated == isReady => isAuthenticated

C3_QrOnlyWhileUnauthenticated == (qrCode # NULL) => ~isAuthenticated

\* the codes the specification documents by name
DocumentedCode(op) ==
  CASE op = "sendMessage" -> "SEND_ERROR"
    [] op = "sendMedia" -> "SEND_MEDIA_ERROR"
    [] op = "getContacts" -> "GET_CONTACTS_ERROR"
    [] op = "getChats" -> "GET_CHATS_ERROR"
    [] op = "getChatById" -> "GET_CHAT_ERROR"
    [] op = "createGroup" -> "CREATE_GROUP_ERROR"
    [] OTHER -> NONE

\* a typed failure carrying the operation's own code: not a success, not the
\* readiness failure, not the code another operation fails with, and the
\* documented code where the specification names one
OwnTypedFailure(r) ==
  /\ r.code \notin {"OK", "NOT_READY", NONE}
  /\ \A o \in Ops \ {r.op} : r.code # ErrorCode(o)
  /\ DocumentedCode(r.op) # NONE => r.code = DocumentedCode(r.op)

C5_RestartNeverSkipsToReady ==
  /\ (last.step = "restart_teardown" /\ rst = "torn") => (~isReady /\ ~isAuthenticated)
  /\ (rst \in {"torn", "rebuilt"}) => ~isReady

\* the numbers of the events consumer c was sent
GotSeqs(c) == {cons[c].got[i].seq : i \in DOMAIN cons[c].got}

\* the numbers of the events produced while consumer c was attached
WindowSeqs(c) == (cons[c].since + 1)..(cons[c].since + Len(cons[c].due))

\* how many times consumer c was sent event number q
TimesGot(c, q) == Cardinality({i \in DOMAIN cons[c].got : cons[c].got[i].seq = q})

\* C6: every event, of every kind, reaches every consumer attached when it
\* is produced, stream and socket alike, and reaches it at most once
C6_BroadcastToAllAttached ==
  \A c \in Consumers :
    \A i \in DOMAIN cons[c].due : TimesGot(c, cons[c].due[i].seq) = 1

\* C7: a consumer never receives an event emitted before it attached, and the
\* events it has observed are exactly those emitted while it was attached
C7_ObservedExactlyWhileAttached ==
  \A c \in Consumers :
    /\ \A i \in DOMAIN cons[c].got : cons[c].got[i].seq > cons[c].since
    /\ GotSeqs(c) = WindowSeqs(c)

\* C8: every message event produced while a socket is attached is observed by
\* it exactly once, whatever the other socket does, and two sockets that
\* observe the same event observe the same payload
C8_EachSocketOneIdenticalMessage ==
  \A s \in Sockets :
    /\ \A i \in DOMAIN cons[s].due :
         cons[s].due[i].kind = "message" => TimesGot(s, cons[s].due[i].seq) = 1
    /\ \A t \in Sockets : \A i \in DOMAIN cons[s].got : \A j \in DOMAIN cons[t].got :
         cons[s].got[i].seq = cons[t].got[j].seq => cons[s].got[i] = cons[t].got[j]

\* C9: right after a successful logout() every SessionStatus field has its
\* value at process start, lastActivityAt included
C9_LogoutRestoresInitial ==
  (last.step = "logout" /\ last.code = "OK") => Status = InitialStatus

\* C10: right after destroy() has completed, ready and authenticated are
\* false and qrChallenge, phoneNumber and displayName are null
C10_DestroyClears ==
  (last.step = "destroy") =>
     /\ ~isReady /\ ~isAuthenticated
     /\ qrCode = NULL /\ phoneNumber = NULL /\ name = NULL

\* the operations the specification counts as mutating
MutatingOps ==
  {"sendMessage", "sendMedia", "createGroup", "joinGroup", "setStatus", "blockContact",
   "unblockContact", "markAsRead", "muteChat", "unmuteChat", "archiveChat",
   "unarchiveChat", "pinChat", "unpinChat", "deleteChat"}

\* C11: right after a mutating operation has succeeded, lastActivityAt is the
\* time of its completion
C11_MutatingOpsTouchLastActivity ==
  (last.step = "cmd" /\ last.code = "OK" /\ last.op \in MutatingOps) => lastSeen = now

\* C12: each lifecycle transition (qr, authenticated, auth_failure, ready,
\* disconnected) sets lastActivityAt to the current time
C12_LifecycleTouchesLastActivity ==
  [][(OnQr \/ OnAuthenticated \/ OnAuthFailure \/ OnReady \/ OnDisconnected)
       => lastSeen' = now]_vars

\* C13: the k-th event produced while a consumer is attached is the k-th raw
\* event received in that time (one emitted event per raw event), and what a
\* consumer was sent is in the order the raw events were received, no event
\* twice
C13_OneEventPerRawInOrder ==
  \A c \in Consumers :
    /\ \A i \in DOMAIN cons[c].due : cons[c].due[i].seq = cons[c].since + i
    /\ \A i, j \in DOMAIN cons[c].got :
         i < j => cons[c].got[i].seq < cons[c].got[j].seq
    /\ GotSeqs(c) \subseteq WindowSeqs(c)

\* a stream and a socket attached late have both been sent a ready event and
\* then a second, equal ready event, in that order
C13_Witness ==
  /\ cons["e1"].since = 0 /\ Len(cons["e1"].got) = 2
  /\ cons["e1"].got[1].kind = "ready" /\ cons["e1"].got[2].kind = "ready"
  /\ cons["e1"].got[1].seq = 1 /\ cons["e1"].got[2].seq = 2
  /\ cons["s1"].since = 1 /\ Len(cons["s1"].got) = 1 /\ cons["s1"].got[1].seq = 2

\* does consumer c listen for events of this kind
Subscribed(c, kind) == IF c \in Sockets THEN kind \in AppKinds ELSE kind \in SseKinds

\* C15: a raw event whose payload lacks a required field (a message without
\* id) does not make its handler throw, and it and every later event of a
\* kind a consumer listens for is delivered to that consumer
C15_MalformedStillDelivered ==
  /\ last.step = "event" => ~last.threw
  /\ \A c \in Consumers : \A i \in DOMAIN cons[c].due :
       Subscribed(c, cons[c].due[i].kind) => TimesGot(c, cons[c].due[i].seq) = 1

\* the API key middleware alone, over every pair of header values
NextAuth == AuthenticateApiKey
SpecAuth == Init /\ [][NextAuth]_vars

\* C14: a request to a protected route reaches its handler exactly when its
\* X-API-Key header is the configured key or its Authorization header is
\* "Bearer " followed by the configured key; any other request is answered 401
\* with success false
C14_HandlerIffExactKey ==
  last.step = "auth" =>
    /\ last.reached <=> (last.xkey = ApiKey \/ last.auth = <<Bearer>> \o ApiKey)
    /\ ~last.reached => (last.res.status = 401 /\ ~last.res.success)

\* one socket: raw events, attach, detach, status requests
NextPush ==
  \/ InitializeCall \/ ClientEvent
  \/ OneSocketConnect \/ SocketDisconnect \/ SocketGetStatus
SpecPush == Init /\ [][NextPush]_vars

\* two streams: raw events, open, close, heartbeat
NextStream ==
  \/ InitializeCall \/ ClientEvent
  \/ AnyStreamOpen \/ StreamClose \/ Heartbeat
SpecStream == Init /\ [][NextStream]_vars

\* a socket and a stream that attach at any moment of the raw event sequence
NextOrder ==
  \/ InitializeCall \/ ClientEvent
  \/ OneSocketConnect \/ StreamOpen
SpecOrder == Init /\ [][NextOrder]_vars

\* C16: a socket's first frame is the status snapshot, sent before any event
\* is sent to it; the snapshot sent on attach and the answer to every
\* whatsapp:get_status is the session state of that moment, produced without
\* a call on the underlying client
C16_SnapshotFirstAndCurrent ==
  /\ \A s \in Sockets :
       (cons[s].st # "new" \/ cons[s].got # <<>>) =>
          (cons[s].first = "status" /\ cons[s].snap # NoSnap)
  /\ (last.step \in {"attach", "get_status"} /\ last.op \in Sockets) =>
       /\ cons[last.op].snap =
            [isReady |-> isReady, isAuthenticated |-> isAuthenticated, qrCode |-> qrCode,
             phoneNumber |-> phoneNumber, name |-> name, lastSeen |-> lastSeen]
       /\ last.calls = 0
       /\ cmd = IdleCmd

\* a socket attached after the first event has been sent the ready event and
\* has then asked for the status, which says ready
C16_Witness ==
  /\ last.step = "get_status" /\ last.op = "s1"
  /\ cons["s1"].since = 1 /\ cons["s1"].first = "status"
  /\ Len(cons["s1"].got) = 1 /\ cons["s1"].got[1].kind = "ready"
  /\ cons["s1"].snap.isReady

\* C17: a closed stream has no listener left on the service and no ping
\* interval, it was sent nothing produced after it closed, every ping goes to
\* an open stream, and every stream still open keeps its seven listeners and
\* its ping interval
C17_ClosedStreamIsGone ==
  /\ \A c \in Streams :
       cons[c].st = "off" =>
          (cons[c].lst = {} /\ ~cons[c].timer /\ GotSeqs(c) \subseteq WindowSeqs(c))
  /\ last.step = "ping" => cons[last.op].st = "on"
  /\ \A c \in Streams :
       cons[c].st = "on" => (cons[c].lst = SseKinds /\ cons[c].timer)

\* two streams were open from the start; one closed after the first event, the
\* other has been sent the second event too
C17_Witness ==
  /\ cons["e1"].st = "off" /\ cons["e1"].since = 0 /\ Len(cons["e1"].got) = 1
  /\ cons["e2"].st = "on" /\ cons["e2"].since = 0 /\ Len(cons["e2"].got) = 2
  /\ cons["e2"].got[2].kind = "ready"

\* the controllers over a session that changes under them
NextHttp ==
  \/ Tick \/ ClientEvent
  \/ InitializeCall \/ InitializeResolve \/ InitializeReject
  \/ LogoutCall \/ LogoutResolve \/ LogoutReject
  \/ DestroyCall \/ DestroyResolve \/ DestroyReject
  \/ Validate \/ GetQRCode \/ GetGroup \/ GetProfilePicture \/ SendMessage
SpecHttp == Init /\ [][NextHttp]_vars

\* C18: GET /qr answers 200 with the stored challenge exactly when a pairing
\* challenge is outstanding (one was issued and the session is neither
\* authenticated nor ready), and 404 otherwise
C18_QrExactlyWhenOutstanding ==
  (last.step = "http" /\ last.op = "qr") =>
     /\ last.res.status \in {200, 404}
     /\ last.res.status = 200 <=> (qrCode # NULL /\ ~isAuthenticated /\ ~isReady)
     /\ last.res.status = 200 => last.res.data = qrCode

\* C19: every failure response has success false and an error string; a
\* validation failure is answered 400, an absent chat, contact or group 404,
\* and 500 is answered only for an internal error or a session not ready
C19_FailureEnvelopeAndStatus ==
  (last.step = "http" /\ ~last.res.success) =>
     /\ last.res.error # NONE
     /\ last.res.status \in {400, 401, 404, 500}
     /\ last.cause = "validation" => last.res.status = 400
     /\ last.cause = "absent" => last.res.status = 404
     /\ last.res.status = 500 => last.cause \in {"internal", "not_ready"}

\* C20: right after sendMessage(to, content) has succeeded on a ready session,
\* what it returned has an id and a sender, its to and body are the recipient
\* and the content that were passed in, and fromMe is true
C20_SentMessageEchoesArguments ==
  (last.step = "cmd" /\ last.op = "sendMessage" /\ last.code = "OK") =>
     /\ last.ret.id # NoId /\ last.ret.from # NoId
     /\ last.ret.to = SendArgs.to
     /\ last.ret.body = SendArgs.content
     /\ last.ret.fromMe

\* C21: only the most recently constructed client is live: no client other
\* than the one the service holds can deliver raw events (and so change the
\* session state or produce events for consumers)
C21_OnlyNewestClientLive ==
  \A c \in Clients : clientSt[c] = "started" => c = client

\* restart() on a service whose command facade is in use
NextRestartFacade ==
  \/ InitializeCall \/ InitializeResolve \/ InitializeReject
  \/ RestartCall \/ RestartTeardown \/ RestartRebuild \/ RestartRebuildFail
  \/ RestartResolve \/ RestartReject
  \/ ClientEvent \/ Command

SpecRestartFacade == Init /\ [][NextRestartFacade]_vars

\* C22: once restart() has replaced the client, no operation is forwarded to
\* the new client before it has become ready; stated for the step that follows
\* the replacement, when the new client has not emitted anything yet
C22_NoCallOnUnreadyNewClient ==
  [][last.step = "restart_rebuild" => ~(cmd.pc = "idle" /\ cmd'.pc = "call1")]_vars

\* restart() and initialize() on a client that emits events
NextRestart ==
  \/ InitializeCall \/ InitializeResolve \/ InitializeReject
  \/ RestartCall \/ RestartTeardown \/ RestartRebuild \/ RestartRebuildFail
  \/ RestartResolve \/ RestartReject
  \/ ClientEvent

SpecRestart == Init /\ [][NextRestart]_vars

\* C23: restart() is ordered: a new client is constructed only by a restart()
\* whose destroy() of the old client has settled, it is constructed with its
\* listeners attached and initialize() is called on it in the same step, and
\* restart() resolves only once that initialize() has resolved; the other
\* endings of restart() are RESTART_ERROR
C23_RestartIsOrdered ==
  [][/\ client' # client =>
          /\ ctl.op = "restart" /\ ctl.pc = "delay" /\ ctl.tgt = client
          /\ clientSt[client'] = "none" /\ clientSt'[client'] = "started"
          /\ ctl'.pc = "init" /\ ctl'.tgt = client'
     /\ (ctl.op = "restart" /\ ctl.pc = "destroying") =>
          (ctl'.pc \in {"destroying", "delay"} /\ client' = client)
     /\ (last'.step = "restart" /\ ctl.op = "restart") =>
          /\ last'.code \in {"OK", "RESTART_ERROR"}
          /\ last'.code = "OK" =>
               (ctl.pc = "init" /\ ctl.tgt = client /\ clientSt[client] # "none")]_vars

\* a restart() resolved after the old client was destroyed and the new one
\* was built and initialized
C23_Witness ==
  /\ last.step = "restart" /\ last.code = "OK"
  /\ client = 2 /\ clientSt[1] = "destroyed" /\ clientSt[2] = "started"

\* the API key each socket presents when it connects: the first presents the
\* configured key, the second presents none; the connection handler reads
\* neither
Handshake(s) == IF s = "s1" THEN ApiKey ELSE <<>>

\* C24: a socket that did not present the valid API key is sent neither the
\* status snapshot nor any whatsapp:* event
C24_UnauthenticatedSocketGetsNothing ==
  \A s \in Sockets :
    ~Authenticated(Handshake(s), <<>>) =>
       (cons[s].snap = NoSnap /\ cons[s].first = NONE /\ cons[s].got = <<>>)

\* the message-action handlers of MessageController
MessageActions == {"react", "forward", "delete", "star", "unstar", "download"}

\* the body field a handler tests before it answers, and its 400 error
RequiredField(act) ==
  CASE act = "react" -> "Reacao e obrigatoria"
    [] act = "forward" -> "Destinatario e obrigatorio"
    [] OTHER -> NONE

\* reactToMessage, forwardMessage, deleteMessage, starMessage, unstarMessage,
\* downloadMedia: the test of the required body field, then the success
\* envelope; the calls on the service and on the message are commented out,
\* so none is made (calls = 0) and the session is not read
MessageAction ==
  \E act \in MessageActions, given \in BOOLEAN :
    /\ last' = [step |-> "http", op |-> act,
                cause |-> IF RequiredField(act) # NONE /\ ~given THEN "validation" ELSE NONE,
                res |-> IF RequiredField(act) # NONE /\ ~given
                          THEN Failure(400, RequiredField(act))
                          ELSE Success(NONE),
                calls |-> 0]
    /\ UNCHANGED <<session, now, client, clientSt, nEmitted, cmd, ctl, cons, rst>>

\* the message-action routes over a session that changes
NextActions == InitializeCall \/ ClientEvent \/ MessageAction
SpecActions == Init /\ [][NextActions]_vars

\* C25: a success response to a message-action request implies that the
\* session was ready and that the action was invoked on the underlying client
C25_ActionSuccessMeansInvoked ==
  (last.step = "http" /\ last.op \in MessageActions /\ last.res.success) =>
     (isReady /\ last.calls >= 1)

\* C26: the disconnected transition sets ready and authenticated to false and
\* leaves phoneNumber and displayName exactly as they were
C26_DisconnectedKeepsIdentity ==
  [][OnDisconnected =>
       /\ ~isReady' /\ ~isAuthenticated'
       /\ phoneNumber' = phoneNumber /\ name' = name]_vars

\* the socket was just sent the disconnected event of a session that had been
\* ready: both flags are down and the identity is still known
C26_Witness ==
  /\ last.step = "event"
  /\ cons["s1"].got # <<>>
  /\ cons["s1"].got[Len(cons["s1"].got)].seq = nEmitted
  /\ cons["s1"].got[Len(cons["s1"].got)].kind = "disconnected"
  /\ ~isReady /\ ~isAuthenticated
  /\ phoneNumber # NULL /\ name # NULL

\* a step of the command facade: a call in flight starts, moves on or settles
CommandStep == cmd' # cmd \/ last'.step = "cmd"

\* C27: no messaging, contact, chat or group operation of the command facade,
\* successful or failed, changes ready, authenticated, qrChallenge,
\* phoneNumber or displayName
C27_CommandsKeepIdentityAndFlags ==
  [][CommandStep => UNCHANGED <<isReady, isAuthenticated, qrCode, phoneNumber, name>>]_vars

\* an operation that made a call on the client has just settled on a ready
\* session whose identity is known
C27_Witness ==
  /\ last.step = "cmd" /\ last.calls >= 1
  /\ isReady /\ isAuthenticated /\ phoneNumber # NULL /\ name # NULL

\* C28: an operation of the command facade that fails (NOT_READY or an error
\* after its readiness check) leaves the whole status, lastSeen included,
\* exactly as it was
C28_FailedCommandKeepsStatus ==
  [][(CommandStep /\ last'.step = "cmd" /\ last'.code # "OK") =>
       UNCHANGED session]_vars

\* a getStatus() that hands out the state object itself: a write by the
\* holder is a write to the session
SnapshotWrite_Aliased ==
  \E c \in Sockets :
    /\ cons[c].snap # NoSnap
    /\ cons' = [cons EXCEPT ![c].snap = [@ EXCEPT !.isReady = ~@]]
    /\ isReady' = ~isReady
    /\ last' = [Step("snapshot_write") EXCEPT !.op = c]
    /\ UNCHANGED <<isAuthenticated, qrCode, phoneNumber, name, lastSeen,
                   now, client, clientSt, nEmitted, cmd, ctl, rst>>

\* the holder of a snapshot assigns to a field of it: getStatus() returned a
\* new object literal of primitive values, so only that object changes
SnapshotWrite ==
  \E c \in Sockets :
    /\ cons[c].snap # NoSnap
    /\ cons' = [cons EXCEPT ![c].snap = [@ EXCEPT !.isReady = ~@]]
    /\ last' = [Step("snapshot_write") EXCEPT !.op = c]
    /\ UNCHANGED <<session, now, client, clientSt, nEmitted, cmd, ctl, rst>>

\* a caller that is not attached to the broadcast (the status route, a test)
\* calls getStatus() and keeps the object it was given; the object is recorded
\* in the snap field of a consumer that never attaches
KeepStatus ==
  /\ cons["s2"].st = "new"
  /\ cons' = [cons EXCEPT !["s2"].snap = Status]
  /\ last' = [Step("get_status") EXCEPT !.op = "s2"]
  /\ UNCHANGED <<session, now, client, clientSt, nEmitted, cmd, ctl, rst>>

\* a held snapshot over lifecycle events, sendMessage, logout and restart
NextSnapshot ==
  \/ InitializeCall
  \/ OnReady \/ OnDisconnected
  \/ SendStart \/ CmdFirstResolve \/ CmdFirstReject
  \/ LogoutCall \/ LogoutResolve \/ LogoutReject
  \/ RestartCall \/ RestartTeardown \/ RestartRebuild \/ RestartRebuildFail
  \/ RestartResolve \/ RestartReject
  \/ KeepStatus \/ SnapshotWrite

SpecSnapshot == Init /\ [][NextSnapshot]_vars

\* C29: getStatus() returns a copy: a write to a returned snapshot never
\* changes the session state, and a snapshot held by a consumer is not changed
\* by any later event, command, logout or restart (only by the holder's own
\* write or by its being replaced with a newer snapshot)
C29_SnapshotIsACopy ==
  [][/\ last'.step = "snapshot_write" => UNCHANGED session
     /\ \A c \in Sockets :
          (last'.step \notin {"attach", "get_status", "snapshot_write"}) =>
             cons'[c].snap = cons[c].snap]_vars

\* a snapshot taken before the session became ready is still held, unchanged,
\* after a ready event and a logout
C29_Witness ==
  /\ last.step = "logout" /\ last.code = "OK"
  /\ cons["s2"].snap = InitialStatus
  /\ lastSeen # 0

\* initialize() and destroy() on a client that emits events
NextTeardown ==
  \/ InitializeCall \/ InitializeResolve \/ InitializeReject
  \/ DestroyCall \/ DestroyResolve \/ DestroyReject
  \/ ClientEvent

SpecTeardown == Init /\ [][NextTeardown]_vars

\* C30: destroy() never rejects: when the teardown of the client succeeded,
\* ready and authenticated are false afterwards; when it threw, destroy() still
\* resolves and ready and authenticated keep the values they had
C30_DestroyAlwaysResolves ==
  [][last'.step = "destroy" =>
       /\ last'.code = "OK"
       /\ ~last'.threw => (~isReady' /\ ~isAuthenticated')
       /\ last'.threw => (isReady' = isReady /\ isAuthenticated' = isAuthenticated)]_vars

\* the teardown of a ready session threw: destroy() resolved and the session
\* is still ready and authenticated
C30_Witness ==
  /\ last.step = "destroy" /\ last.code = "OK" /\ last.threw
  /\ isReady /\ isAuthenticated

====
